---------------------------- MODULE Spec2Model ----------------------------
(***************************************************************************)
(* Tropical varieties: a model of sage/rings/semirings/tropical_variety.py *)
(*                                                                         *)
(* TropicalVariety.__init__ is modelled statement by statement: the loop   *)
(* over pairs of terms (equality solve, dominance filter, order), the      *)
(* rewriting of every root to the parameters t1..t(n-1), the dedup loop     *)
(* and the final append of the orders.  Symbolic expressions are affine    *)
(* forms with exact rational coefficients.                                 *)
(***************************************************************************)
EXTENDS Integers, Sequences, FiniteSets, TLC

(***************************************************************************)
(* Bounds of the input space.                                              *)
(***************************************************************************)
MaxTerms == 4
Dims == {2, 3}
Coefs == {0, 1}

(***************************************************************************)
(* Exact rational arithmetic (the coefficients are lifted to QQ).  A       *)
(* rational is <<p, q>> with q > 0 and gcd(|p|, q) = 1.                     *)
(***************************************************************************)
Abs(x) == IF x < 0 THEN -x ELSE x

RECURSIVE GCD(_, _)
GCD(a, b) == IF b = 0 THEN a ELSE GCD(b, a % b)

RNorm(p, q) ==
    LET g == GCD(Abs(p), Abs(q))
        s == IF q < 0 THEN -1 ELSE 1
    IN  <<(s * p) \div g, (s * q) \div g>>

R(k) == <<k, 1>>
RZero == R(0)
RAdd(a, b) == RNorm(a[1] * b[2] + b[1] * a[2], a[2] * b[2])
RNeg(a) == <<-a[1], a[2]>>
RSub(a, b) == RAdd(a, RNeg(b))
RMul(a, b) == RNorm(a[1] * b[1], a[2] * b[2])
RDiv(a, b) == RNorm(a[1] * b[2], a[2] * b[1])
RLt(a, b) == a[1] * b[2] < b[1] * a[2]
RLe(a, b) == a[1] * b[2] <= b[1] * a[2]
RSign(a) == IF a[1] > 0 THEN 1 ELSE IF a[1] < 0 THEN -1 ELSE 0
Lcm(a, b) == (a * b) \div GCD(a, b)
\* gcd of two rationals: the gcd of the numerators over the lcm of the
\* denominators
RGcd(a, b) == RNorm(GCD(Abs(a[1]), Abs(b[1])), Lcm(a[2], b[2]))

(***************************************************************************)
(* Affine forms.  A form over k symbols is a sequence of k+1 rationals:    *)
(* the coefficients of the symbols, then the constant.                     *)
(***************************************************************************)
\* a sequence given as a function, as the tuple of its values
Tuple(f) == IF f = <<>> THEN <<>> ELSE f

AffAdd(f, g) == Tuple([i \in 1 .. Len(f) |-> RAdd(f[i], g[i])])
AffScale(c, f) == Tuple([i \in 1 .. Len(f) |-> RMul(c, f[i])])
AffSub(f, g) == Tuple([i \in 1 .. Len(f) |-> RSub(f[i], g[i])])
AffZero(k) == Tuple([i \in 1 .. k + 1 |-> RZero])
AffSym(k, j) == Tuple([i \in 1 .. k + 1 |-> IF i = j THEN R(1) ELSE RZero])
AffConst(k, c) == Tuple([i \in 1 .. k + 1 |-> IF i = k + 1 THEN c ELSE RZero])
AffVars(f) == {j \in 1 .. Len(f) - 1 : f[j] # RZero}
AffIsConst(f) == AffVars(f) = {}
AffConstPart(f) == f[Len(f)]

RECURSIVE AffSumTo(_, _, _)
\* sum over i <= upto of f[i] * subst[i], plus nothing for the constant
AffSumTo(f, subst, upto) ==
    IF upto = 0 THEN AffZero(Len(subst[1]) - 1)
    ELSE AffAdd(AffSumTo(f, subst, upto - 1), AffScale(f[upto], subst[upto]))

\* f with symbol i replaced by the form subst[i] (all forms of subst over
\* the same symbols)
AffSubs(f, subst) ==
    LET k == Len(subst[1]) - 1
    IN  AffAdd(AffSumTo(f, subst, Len(f) - 1), AffConst(k, AffConstPart(f)))

\* value of f at a point (a sequence of rationals, one per symbol)
RECURSIVE AffEvalTo(_, _, _)
AffEvalTo(f, pt, upto) ==
    IF upto = 0 THEN AffConstPart(f)
    ELSE RAdd(AffEvalTo(f, pt, upto - 1), RMul(f[upto], pt[upto]))

AffEval(f, pt) == AffEvalTo(f, pt, Len(f) - 1)


(***************************************************************************)
(* Sequences helpers.                                                      *)
(***************************************************************************)
RECURSIVE SeqOfSetDesc(_)
\* the members of a finite set of integers, largest first
SeqOfSetDesc(S) ==
    IF S = {} THEN <<>>
    ELSE LET mx == CHOOSE x \in S : \A y \in S : y <= x
         IN  <<mx>> \o SeqOfSetDesc(S \ {mx})

Perms(S) ==
    {p \in [1 .. Cardinality(S) -> S] : \A i, j \in DOMAIN p : i # j => p[i] # p[j]}

IndexOf(seq, x) == CHOOSE i \in DOMAIN seq : seq[i] = x

(***************************************************************************)
(* The polynomial: poly.dict() as the sequence of its items in the dict's  *)
(* iteration order; an item is [e |-> exponent vector, c |-> coefficient]. *)
(***************************************************************************)
RECURSIVE SumTo(_, _)
SumTo(e, i) == IF i = 0 THEN 0 ELSE SumTo(e, i - 1) + e[i]

Degree(e) == SumTo(e, Len(e))

\* the exponent vectors of the inputs: the monomials of total degree at most
\* two in two variables, the squarefree ones among them in three
ExpVecs(n) ==
    {e \in [1 .. n -> 0 .. 4 - n] : Degree(e) <= 2}

\* the number of terms of the inputs: at most MaxTerms in two variables, one
\* less in three
TermBound(n) == IF n = 2 THEN MaxTerms ELSE 3

\* the lexicographic order of exponent vectors
RECURSIVE LexLessFrom(_, _, _)
LexLessFrom(e, f, c) ==
    IF c > Len(e) THEN FALSE
    ELSE IF e[c] # f[c] THEN e[c] < f[c]
    ELSE LexLessFrom(e, f, c + 1)

LexLess(e, f) == LexLessFrom(e, f, 1)

\* term of the polynomial -> its linear function over the n ambient variables
LinearEq(term) ==
    LET n == Len(term.e)
    IN  Tuple([i \in 1 .. n + 1 |-> IF i <= n THEN R(term.e[i]) ELSE R(term.c)])

\* combinations(range(1, k+1), 2) in itertools order
RECURSIVE Combinations2From(_, _, _)
Combinations2From(k, a, b) ==
    IF a >= k THEN <<>>
    ELSE IF b > k THEN Combinations2From(k, a + 1, a + 2)
    ELSE <<(<<a, b>>)>> \o Combinations2From(k, a, b + 1)

Combinations2(k) == Combinations2From(k, 1, 2)

(***************************************************************************)
(* Symbolic expressions of a condition: an affine form, a max or a min of  *)
(* affine forms, or an infinity; and relations lhs op rhs between them.    *)
(***************************************************************************)
ExprAff(f) == [kind |-> "aff", s |-> {f}]
ExprInf(sign) == [kind |-> IF sign < 0 THEN "-oo" ELSE "+oo", s |-> {}]

\* max(...) / min(...) of a set of forms, terms that another term with the
\* same linear part dominates removed, and a single term left bare
Linear(f) == Tuple([i \in 1 .. Len(f) - 1 |-> f[i]])
ExprMax(S) ==
    LET T == {f \in S : ~ \E g \in S : /\ Linear(g) = Linear(f)
                                       /\ RLt(AffConstPart(f), AffConstPart(g))}
    IN  IF Cardinality(T) = 1 THEN [kind |-> "aff", s |-> T] ELSE [kind |-> "max", s |-> T]
ExprMin(S) ==
    LET T == {f \in S : ~ \E g \in S : /\ Linear(g) = Linear(f)
                                       /\ RLt(AffConstPart(g), AffConstPart(f))}
    IN  IF Cardinality(T) = 1 THEN [kind |-> "aff", s |-> T] ELSE [kind |-> "min", s |-> T]

ExprVars(x) == UNION {AffVars(f) : f \in x.s}

Rel(l, o, r) == [lhs |-> l, op |-> o, rhs |-> r]
RelVars(r) == ExprVars(r.lhs) \cup ExprVars(r.rhs)

(***************************************************************************)
(* The solver, sage.symbolic.relation.solve, as the constructor uses it.   *)
(***************************************************************************)
\* solve(linear_eq[k0] == linear_eq[k1], variables): d is the difference of
\* the two linear functions.  The first variable with a nonzero coefficient
\* is solved for, every other variable becomes a free parameter of its own;
\* the result is the sequence of right-hand sides, over the n parameters
\* r_1..r_n (r_j stands for variable j; r_s of the solved variable is unused).
SolvedVar(d) == CHOOSE v \in AffVars(d) : \A j \in AffVars(d) : v <= j

SolveEq(d) ==
    LET n == Len(d) - 1
        v == SolvedVar(d)
        rhs == Tuple([i \in 1 .. n + 1 |->
                        IF i = v THEN RZero ELSE RNeg(RDiv(d[i], d[v]))])
    IN  Tuple([i \in 1 .. n |-> IF i = v THEN rhs ELSE AffSym(n, i)])

\* the bound that the inequality g > 0 puts on the symbol v: v > bound when
\* g[v] > 0 and v < bound when g[v] < 0
BoundOn(g, v) ==
    Tuple([i \in 1 .. Len(g) |-> IF i = v THEN RZero ELSE RNeg(RDiv(g[i], g[v]))])

\* solve of one inequality in one variable (solve_rat_ineq): the variable on
\* the left, its bound on the right
SolveIneqUnivar(g) ==
    LET v == CHOOSE j \in AffVars(g) : TRUE
    IN  Rel(ExprAff(AffSym(Len(g) - 1, v)),
            IF RSign(g[v]) > 0 THEN ">" ELSE "<",
            ExprAff(BoundOn(g, v)))

\* solve of a system of inequalities g > 0 (Fourier elimination), the
\* variables eliminated in the order ord: for each variable its lower bound
\* "max(...) < v" and its upper bound "v < min(...)", then the conditions on
\* the variables that are left.  ok is FALSE for the empty set.
RECURSIVE FourierElim(_, _)
FourierElim(S, ord) ==
    LET consts == {g \in S : AffIsConst(g)}
        T == S \ consts
    IN  IF \E g \in consts : RSign(AffConstPart(g)) <= 0
        THEN [ok |-> FALSE, rels |-> <<>>]
        ELSE IF ord = <<>> THEN [ok |-> TRUE, rels |-> <<>>]
        ELSE LET v == Head(ord)
                 k == Len(CHOOSE g \in S : TRUE) - 1
                 Lo == {BoundOn(g, v) : g \in {h \in T : RSign(h[v]) > 0}}
                 Up == {BoundOn(g, v) : g \in {h \in T : RSign(h[v]) < 0}}
                 Z == {h \in T : RSign(h[v]) = 0}
                 New == {AffSub(u, l) : l \in Lo, u \in Up}
                 rest == FourierElim(Z \cup New, Tail(ord))
                 lower == IF Lo = {} THEN <<>>
                          ELSE <<Rel(ExprMax(Lo), "<", ExprAff(AffSym(k, v)))>>
                 upper == IF Up = {} THEN <<>>
                          ELSE <<Rel(ExprAff(AffSym(k, v)), "<", ExprMin(Up))>>
             IN  [ok |-> rest.ok, rels |-> lower \o upper \o rest.rels]

SeqRange(seq) == {seq[i] : i \in DOMAIN seq}

\* solve(all_sol_compare, list(parameter)): [[]] for no inequality, the
\* one-variable form for a single inequality in one variable, Fourier
\* elimination otherwise.  The order of list(parameter), the list of a set,
\* is not fixed by the program: ord is any order of the variables.
SolveSystem(ineqs, ord) ==
    IF Len(ineqs) = 0 THEN [ok |-> TRUE, rels |-> <<>>]
    ELSE IF Len(ineqs) = 1 /\ Cardinality(AffVars(ineqs[1])) = 1
         THEN [ok |-> TRUE, rels |-> <<SolveIneqUnivar(ineqs[1])>>]
    ELSE FourierElim(SeqRange(ineqs), ord)

SystemVars(ineqs) == UNION {AffVars(ineqs[i]) : i \in DOMAIN ineqs}

(***************************************************************************)
(* TropicalVariety.__init__: the body of the loop over the pairs of terms. *)
(***************************************************************************)
\* min_max and temp_compare: a linear function with every variable
\* replaced by its solution
SubsSolution(term, final_sol) == AffSubs(LinearEq(term), final_sol)

\* the inequality handed to solve for one other term, written g > 0:
\* min_max < temp_compare under use_min, min_max > temp_compare otherwise
\* the comparison of line 259 under either convention
DominanceIneqMaxOnly(use_min_, min_max, temp_compare) == AffSub(min_max, temp_compare)

\* the comparison of lines 257 and 259 with the two conventions exchanged
DominanceIneqExchanged(use_min_, min_max, temp_compare) ==
    IF use_min_ THEN AffSub(min_max, temp_compare)
    ELSE AffSub(temp_compare, min_max)

DominanceIneq(use_min_, min_max, temp_compare) ==
    IF use_min_ THEN AffSub(temp_compare, min_max)
    ELSE AffSub(min_max, temp_compare)

\* sol_compare for one other term: "tie" ([[]], the two are equal), "all"
\* ([[]], true for every parameter), "none" ([], no solution) or "ineq"
CompareKind(use_min_, min_max, temp_compare) ==
    LET g == DominanceIneq(use_min_, min_max, temp_compare)
    IN  IF min_max = temp_compare THEN "tie"
        ELSE IF AffIsConst(g)
             THEN (IF RSign(AffConstPart(g)) > 0 THEN "all" ELSE "none")
        ELSE "ineq"

\* the indices of the terms other than the pair, in dict order
OtherTerms(terms, pr) ==
    SelectSeq(Tuple([c \in 1 .. Len(terms) |-> c]), LAMBDA c : c # pr[1] /\ c # pr[2])

\* order = gcd of the absolute differences of the two exponent vectors
RECURSIVE GcdDiffTo(_, _, _)
GcdDiffTo(e0, e1, upto) ==
    IF upto = 0 THEN 0
    ELSE GCD(GcdDiffTo(e0, e1, upto - 1), Abs(e0[upto] - e1[upto]))

\* the order as the sum of the differences instead of their gcd
RECURSIVE SumDiffTo(_, _, _)
SumDiffTo(e0, e1, upto) ==
    IF upto = 0 THEN 0
    ELSE SumDiffTo(e0, e1, upto - 1) + Abs(e0[upto] - e1[upto])

OrderAsSum(e0, e1) == SumDiffTo(e0, e1, Len(e0))

Order(e0, e1) == GcdDiffTo(e0, e1, Len(e0))

\* the first half of one iteration of "for keys in combinations(
\* poly.dict(), 2)": the parametric solution and the loop over the other
\* terms
PairCompare(terms, use_min_, pr) ==
    LET t0 == terms[pr[1]]
        final_sol == SolveEq(AffSub(LinearEq(t0), LinearEq(terms[pr[2]])))
        min_max == SubsSolution(t0, final_sol)
        others == OtherTerms(terms, pr)
        temp == Tuple([j \in DOMAIN others |-> SubsSolution(terms[others[j]], final_sol)])
        kind == Tuple([j \in DOMAIN others |-> CompareKind(use_min_, min_max, temp[j])])
        constrained == SelectSeq(Tuple([j \in DOMAIN others |-> j]),
                                 LAMBDA j : kind[j] = "ineq")
    IN  [final_sol |-> final_sol,
         no_solution |-> \E j \in DOMAIN others : kind[j] = "none",
         all_sol_compare |->
            Tuple([j \in DOMAIN constrained |->
                      DominanceIneq(use_min_, min_max, temp[constrained[j]])])]

\* list(parameter): the variables of all_sol_compare, in any order
ParameterLists(terms, use_min_, pr) ==
    Perms(SystemVars(PairCompare(terms, use_min_, pr).all_sol_compare))


\* the second half with the flag no_solution of line 272 left out
PairRootIgnoringNoSolution(terms, use_min_, pr, ord) ==
    LET cmp == PairCompare(terms, use_min_, pr)
        parameter_solution == SolveSystem(cmp.all_sol_compare, ord)
    IN  [found |-> parameter_solution.ok,
         root |-> <<cmp.final_sol, parameter_solution.rels>>,
         order |-> Order(terms[pr[1]].e, terms[pr[2]].e),
         keys |-> <<terms[pr[1]].e, terms[pr[2]].e>>]

\* the second half: found is TRUE when the pair is appended to
\* tropical_roots, with its xy_interval <<final_sol, parameter_solution[0]>>,
\* its order and its keys
PairRoot(terms, use_min_, pr, ord) ==
    LET cmp == PairCompare(terms, use_min_, pr)
        parameter_solution == SolveSystem(cmp.all_sol_compare, ord)
    IN  [found |-> ~cmp.no_solution /\ parameter_solution.ok,
         root |-> <<cmp.final_sol, parameter_solution.rels>>,
         order |-> Order(terms[pr[1]].e, terms[pr[2]].e),
         keys |-> <<terms[pr[1]].e, terms[pr[2]].e>>]

(***************************************************************************)
(* TropicalVariety.__init__: "changing all the operator symbol to be <= or *)
(* >=", the loop that rewrites every root to the parameters t1..t(n-1).    *)
(***************************************************************************)
\* eq.variables(): the parameters of a coordinate in the order of their
\* names (the solver numbers its parameters from the last variable back)
Variables(f) == SeqOfSetDesc(AffVars(f))

\* subs_dict filled from the last coordinate to the first
RECURSIVE SubsDictBackFrom(_, _, _)
SubsDictBackFrom(point, c, acc) ==
    IF c > Len(point) THEN acc
    ELSE SubsDictBackFrom(point, c + 1,
            acc \o SelectSeq(Variables(point[Len(point) + 1 - c]),
                             LAMBDA v : v \notin SeqRange(acc)))

\* subs_dict as the sequence of the parameters in the order in which they
\* get t1, t2, ...: by coordinate, and in a coordinate by Variables
RECURSIVE SubsDictFrom(_, _, _)
SubsDictFrom(point, c, acc) ==
    IF c > Len(point) THEN acc
    ELSE SubsDictFrom(point, c + 1,
            acc \o SelectSeq(Variables(point[c]), LAMBDA v : v \notin SeqRange(acc)))

SubsDict(point) == SubsDictFrom(point, 1, <<>>)

\* f.subs(subs_dict) for an affine form: a form over t1..t(dim_param)
SubsForm(f, subs_dict, dim_param) ==
    Tuple([j \in 1 .. dim_param + 1 |->
              IF j = dim_param + 1 THEN AffConstPart(f)
              ELSE IF j <= Len(subs_dict) THEN f[subs_dict[j]] ELSE RZero])

SubsExpr(x, subs_dict, dim_param) ==
    [kind |-> x.kind, s |-> {SubsForm(f, subs_dict, dim_param) : f \in x.s}]

\* one condition rewritten: >= for an operator gt, <= for any other
\* the rewriting without its test of the operator: every condition "<="
RewriteParamAllLe(param, subs_dict, dim_param) ==
    Rel(SubsExpr(param.lhs, subs_dict, dim_param), "<=",
        SubsExpr(param.rhs, subs_dict, dim_param))

RewriteParam(param, subs_dict, dim_param) ==
    Rel(SubsExpr(param.lhs, subs_dict, dim_param),
        IF param.op = ">" THEN ">=" ELSE "<=",
        SubsExpr(param.rhs, subs_dict, dim_param))

\* the two conditions "-Infinity < var" and "var < +Infinity" per parameter
RECURSIVE Unbounded(_, _)
Unbounded(dim_param, upto) ==
    IF upto = 0 THEN <<>>
    ELSE Unbounded(dim_param, upto - 1)
         \o <<Rel(ExprInf(-1), "<", ExprAff(AffSym(dim_param, upto))),
              Rel(ExprAff(AffSym(dim_param, upto)), "<", ExprInf(1))>>

\* one iteration of "for arg in tropical_roots": the component <<new_eq,
\* new_param>> appended to components
RewriteRoot(arg, dim_param) ==
    LET subs_dict == SubsDict(arg[1])
        new_eq == Tuple([c \in DOMAIN arg[1] |->
                            SubsForm(arg[1][c], subs_dict, dim_param)])
        new_param ==
            IF arg[2] = <<>> THEN Unbounded(dim_param, dim_param)
            ELSE Tuple([j \in DOMAIN arg[2] |->
                           RewriteParam(arg[2][j], subs_dict, dim_param)])
    IN  <<new_eq, new_param>>

(***************************************************************************)
(* Equality of components, as "component not in self._hypersurface" and    *)
(* "self._hypersurface.index(component)" decide it: equal points and equal *)
(* lists of conditions; a relation equals itself and its mirror image.     *)
(***************************************************************************)
Mirror(o) == CASE o = "<" -> ">" [] o = ">" -> "<" [] o = "<=" -> ">=" [] o = ">=" -> "<="

RelEq(p, q) ==
    \/ p = q
    \/ p.lhs = q.rhs /\ p.rhs = q.lhs /\ p.op = Mirror(q.op)

ComponentEq(c, d) ==
    /\ c[1] = d[1]
    /\ Len(c[2]) = Len(d[2])
    /\ \A j \in DOMAIN c[2] : RelEq(c[2][j], d[2][j])

\* the indices of hypersurface whose entry equals component
Matches(hyp, component) == {j \in DOMAIN hyp : ComponentEq(hyp[j], component)}

\* list.index: the first of them
ListIndex(hyp, component) ==
    CHOOSE j \in Matches(hyp, component) : \A l \in Matches(hyp, component) : j <= l

\* the dedup step that replaces the order of a component but not its keys
DedupKeepKeys(hyp, orders, keys, component, order, key) ==
    IF Matches(hyp, component) = {}
    THEN [hypersurface |-> Append(hyp, component),
          final_order |-> Append(orders, order),
          keys |-> Append(keys, key)]
    ELSE LET index == ListIndex(hyp, component)
         IN  [hypersurface |-> hyp,
              final_order |-> IF order > orders[index]
                              THEN [orders EXCEPT ![index] = order] ELSE orders,
              keys |-> keys]

\* the dedup step that keeps what the first of the equal components brought
DedupKeepFirst(hyp, orders, keys, component, order, key) ==
    IF Matches(hyp, component) = {}
    THEN [hypersurface |-> Append(hyp, component),
          final_order |-> Append(orders, order),
          keys |-> Append(keys, key)]
    ELSE [hypersurface |-> hyp, final_order |-> orders, keys |-> keys]

\* the dedup step without the test "component not in self._hypersurface"
DedupAlwaysAppend(hyp, orders, keys, component, order, key) ==
    [hypersurface |-> Append(hyp, component),
     final_order |-> Append(orders, order),
     keys |-> Append(keys, key)]

\* the dedup step that always takes the order and the keys of the later of
\* two equal components
DedupKeepLast(hyp, orders, keys, component, order, key) ==
    IF Matches(hyp, component) = {}
    THEN [hypersurface |-> Append(hyp, component),
          final_order |-> Append(orders, order),
          keys |-> Append(keys, key)]
    ELSE LET index == ListIndex(hyp, component)
         IN  [hypersurface |-> hyp,
              final_order |-> [orders EXCEPT ![index] = order],
              keys |-> [keys EXCEPT ![index] = key]]

\* the dedup step with ">=" for the ">" of line 338
DedupReplaceOnEqual(hyp, orders, keys, component, order, key) ==
    IF Matches(hyp, component) = {}
    THEN [hypersurface |-> Append(hyp, component),
          final_order |-> Append(orders, order),
          keys |-> Append(keys, key)]
    ELSE LET index == ListIndex(hyp, component)
         IN  IF order >= orders[index]
             THEN [hypersurface |-> hyp,
                   final_order |-> [orders EXCEPT ![index] = order],
                   keys |-> [keys EXCEPT ![index] = key]]
             ELSE [hypersurface |-> hyp, final_order |-> orders, keys |-> keys]

\* lines 331-340, the body of the dedup loop: a new component is appended
\* with its order and its keys; for a component that is there already the
\* order and the keys are replaced when the new order is larger
Dedup(hyp, orders, keys, component, order, key) ==
    IF Matches(hyp, component) = {}
    THEN [hypersurface |-> Append(hyp, component),
          final_order |-> Append(orders, order),
          keys |-> Append(keys, key)]
    ELSE LET index == ListIndex(hyp, component)
         IN  IF order > orders[index]
             THEN [hypersurface |-> hyp,
                   final_order |-> [orders EXCEPT ![index] = order],
                   keys |-> [keys EXCEPT ![index] = key]]
             ELSE [hypersurface |-> hyp, final_order |-> orders, keys |-> keys]

\* the early return taken for a polynomial of no term
IsConstantWhenEmpty(dict) == Len(dict) = 0

\* line 214: "constant polynomial"
IsConstant(dict) == Len(dict) = 1

(***************************************************************************)
(* The state: the argument of the constructor, the attributes of the new   *)
(* object, the locals of __init__ and the position in it.                   *)
(***************************************************************************)
VARIABLES
    terms,           \* poly.dict(), in dict order
    nvars,           \* poly.parent().ngens()
    use_min,         \* poly.parent().base()._use_min
    tropical,        \* isinstance(poly, TropicalMPolynomial)
    pc,              \* "new", "pairs", "dedup", "done" or "raised"
    exc,             \* the exception __init__ raised, "" for none
    attrs,           \* the attributes that are set on self
    hypersurface,    \* self._hypersurface
    self_keys,       \* self._keys
    examined,        \* the pairs of combinations(poly.dict(), 2) taken so far
    tropical_roots, temp_order, temp_keys,
    components,      \* the rewritten roots
    i,               \* the index of the dedup loop (components handled)
    final_order,
    ret              \* what the last call of a method returned or raised

vars == <<terms, nvars, use_min, tropical, pc, exc, attrs, hypersurface,
          self_keys, examined, tropical_roots, temp_order, temp_keys,
          components, i, final_order, ret>>

input == <<terms, nvars, use_min, tropical>>
locals == <<examined, tropical_roots, temp_order, temp_keys, components, i, final_order>>

\* the dicts of the input polynomials in n variables: the keys in
\* lexicographic order, or in that order with the first key moved to the end
\* (a dict keeps the order in which its keys were inserted)
SortedSeqs(S, len) ==
    {q \in [1 .. len -> S] : \A a \in 1 .. len - 1 : LexLess(q[a], q[a + 1])}

Rotate(q) == IF Len(q) <= 1 THEN q ELSE Append(Tail(q), Head(q))

SortedDicts(n) ==
    UNION {{Tuple([j \in 1 .. len |-> [e |-> es[j], c |-> cs[j]]]) :
                es \in SortedSeqs(ExpVecs(n), len), cs \in [1 .. len -> Coefs]} :
           len \in 0 .. TermBound(n)}

PolyDicts(n) == SortedDicts(n) \cup {Rotate(q) : q \in SortedDicts(n)}

NoReturn == [op |-> "", kind |-> "", val |-> 0]

Init ==
    /\ nvars \in Dims
    /\ terms \in PolyDicts(nvars)
    /\ tropical \in BOOLEAN
    /\ use_min \in BOOLEAN
    /\ tropical = FALSE => use_min = FALSE /\ nvars = 2 /\ Len(terms) = 2
    /\ pc = "new"
    /\ exc = ""
    /\ attrs = {}
    /\ hypersurface = <<>>
    /\ self_keys = <<>>
    /\ examined = 0
    /\ tropical_roots = <<>>
    /\ temp_order = <<>>
    /\ temp_keys = <<>>
    /\ components = <<>>
    /\ i = 0
    /\ final_order = <<>>
    /\ ret = NoReturn

(***************************************************************************)
(* __init__                                                                *)
(***************************************************************************)
\* the check of the argument made after lines 212-213 instead of before
InitRaiseAfterStore ==
    /\ pc = "new"
    /\ ~ tropical
    /\ attrs' = {"_poly", "_hypersurface"}
    /\ exc' = "ValueError"
    /\ pc' = "raised"
    /\ UNCHANGED <<input, hypersurface, self_keys, locals, ret>>

\* lines 209-210: the argument is no TropicalMPolynomial
InitRaise ==
    /\ pc = "new"
    /\ ~tropical
    /\ pc' = "raised"
    /\ exc' = "ValueError"
    /\ UNCHANGED <<input, attrs, hypersurface, self_keys, locals, ret>>

\* lines 212-215: _poly and _hypersurface are set; a dict of one term returns
InitBegin ==
    /\ pc = "new"
    /\ tropical
    /\ attrs' = {"_poly", "_hypersurface"}
    /\ hypersurface' = <<>>
    /\ pc' = IF IsConstant(terms) THEN "done" ELSE "pairs"
    /\ UNCHANGED <<input, exc, self_keys, locals, ret>>

\* lines 234-286: one pair of terms
InitPair ==
    /\ pc = "pairs"
    /\ examined < Len(Combinations2(Len(terms)))
    /\ \E pr \in {Combinations2(Len(terms))[examined + 1]} :
           \E ord \in ParameterLists(terms, use_min, pr) :
             \E res \in {PairRoot(terms, use_min, pr, ord)} :
                 /\ tropical_roots' = IF res.found THEN Append(tropical_roots, res.root)
                                      ELSE tropical_roots
                 /\ temp_order' = IF res.found THEN Append(temp_order, res.order)
                                  ELSE temp_order
                 /\ temp_keys' = IF res.found THEN Append(temp_keys, res.keys)
                                 ELSE temp_keys
    /\ examined' = examined + 1
    /\ UNCHANGED <<input, pc, exc, attrs, hypersurface, self_keys, components, i,
                   final_order, ret>>

\* lines 288-326: _keys is set, then tropical_roots[0] is read (IndexError
\* on an empty list) and every root is rewritten
InitRewrite ==
    /\ pc = "pairs"
    /\ examined = Len(Combinations2(Len(terms)))
    /\ attrs' = attrs \cup {"_keys"}
    /\ self_keys' = <<>>
    /\ IF tropical_roots = <<>>
       THEN /\ pc' = "raised"
            /\ exc' = "IndexError"
            /\ UNCHANGED components
       ELSE /\ pc' = "dedup"
            /\ exc' = exc
            /\ LET dim_param == Len(tropical_roots[1][1]) - 1
               IN  components' = [j \in DOMAIN tropical_roots |->
                                     RewriteRoot(tropical_roots[j], dim_param)]
    /\ UNCHANGED <<input, hypersurface, examined, tropical_roots, temp_order,
                   temp_keys, i, final_order, ret>>

\* lines 329-340: one iteration of "for i, component in enumerate(components)"
InitDedup ==
    /\ pc = "dedup"
    /\ i < Len(components)
    /\ attrs' = attrs \cup {"_vars"}
    /\ \E d \in {Dedup(hypersurface, final_order, self_keys, components[i + 1],
                      temp_order[i + 1], temp_keys[i + 1])} :
           /\ hypersurface' = d.hypersurface
           /\ final_order' = d.final_order
           /\ self_keys' = d.keys
    /\ i' = i + 1
    /\ UNCHANGED <<input, pc, exc, examined, tropical_roots, temp_order, temp_keys,
                   components, ret>>

\* lines 341-342: the order is appended to every component
InitFinish ==
    /\ pc = "dedup"
    /\ i = Len(components)
    /\ attrs' = attrs \cup {"_vars"}
    /\ hypersurface' = [j \in DOMAIN hypersurface |->
                           Append(hypersurface[j], final_order[j])]
    /\ pc' = "done"
    /\ UNCHANGED <<input, exc, self_keys, examined, tropical_roots, temp_order,
                   temp_keys, components, i, final_order, ret>>

(***************************************************************************)
(* The construction of a curve as one function of the dict and the         *)
(* convention: the loop over the pairs, the rewriting and the dedup loop,  *)
(* by the operators that the actions above apply.  With two variables a    *)
(* system has at most one parameter, so list(parameter) has one order.     *)
(***************************************************************************)
\* the pairs that lines 234-286 append to tropical_roots, in their order
CurveRoots(dict, use_min_) ==
    LET pairs == Combinations2(Len(dict))
        all == Tuple([k \in DOMAIN pairs |->
                         PairRoot(dict, use_min_, pairs[k],
                                  CHOOSE ord \in ParameterLists(dict, use_min_, pairs[k]) : TRUE)])
    IN  SelectSeq(all, LAMBDA res : res.found)

\* lines 330-340 for the first upto of the components
RECURSIVE DedupTo(_, _, _, _)
DedupTo(comps, orders, keys, upto) ==
    IF upto = 0 THEN [hypersurface |-> <<>>, final_order |-> <<>>, keys |-> <<>>]
    ELSE LET d == DedupTo(comps, orders, keys, upto - 1)
         IN  Dedup(d.hypersurface, d.final_order, d.keys,
                   comps[upto], orders[upto], keys[upto])

\* self._hypersurface and self._keys at the end of __init__ (a dict of two
\* terms or more, in two variables)
CurveOf(dict, use_min_) ==
    LET roots == CurveRoots(dict, use_min_)
        comps == Tuple([j \in DOMAIN roots |-> RewriteRoot(roots[j].root, 1)])
        d == DedupTo(comps, Tuple([j \in DOMAIN roots |-> roots[j].order]),
                     Tuple([j \in DOMAIN roots |-> roots[j].keys]), Len(roots))
    IN  [hypersurface |-> Tuple([j \in DOMAIN d.hypersurface |->
                                    Append(d.hypersurface[j], d.final_order[j])]),
         keys |-> d.keys]

\* self._hypersurface and self._keys at the end of __init__ in any number
\* of variables, list(parameter) taken in one fixed order for every pair
VarietyOf(dict, use_min_) ==
    LET roots == CurveRoots(dict, use_min_)
        dim_param == Len(roots[1].root[1]) - 1
        comps == Tuple([j \in DOMAIN roots |-> RewriteRoot(roots[j].root, dim_param)])
        d == DedupTo(comps, Tuple([j \in DOMAIN roots |-> roots[j].order]),
                     Tuple([j \in DOMAIN roots |-> roots[j].keys]), Len(roots))
    IN  [hypersurface |-> Tuple([j \in DOMAIN d.hypersurface |->
                                    Append(d.hypersurface[j], d.final_order[j])]),
         keys |-> d.keys]

(***************************************************************************)
(* The methods of a constructed variety.                                   *)
(***************************************************************************)
\* dimension(): len(self._hypersurface[0][0])
dimension ==
    IF hypersurface = <<>> THEN [op |-> "dimension", kind |-> "raise", val |-> "IndexError"]
    ELSE [op |-> "dimension", kind |-> "return", val |-> Len(hypersurface[1][1])]

number_of_components ==
    [op |-> "number_of_components", kind |-> "return", val |-> Len(hypersurface)]

components_ ==
    [op |-> "components", kind |-> "return", val |-> hypersurface]

(***************************************************************************)
(* TropicalCurve: the intervals of the parameter and the vertices.         *)
(***************************************************************************)
\* an end of an interval: a rational, or an infinity (inf = -1 or 1)
Fin(v) == [inf |-> 0, v |-> v]
Inf(sign) == [inf |-> sign, v |-> RZero]

\* the end that a side of a condition denotes (a constant or an infinity)
EndOf(x) ==
    IF x.kind = "-oo" THEN Inf(-1)
    ELSE IF x.kind = "+oo" THEN Inf(1)
    ELSE Fin(AffConstPart(CHOOSE f \in x.s : TRUE))

\* RealSet(relation) for a condition on the one parameter: the closed ray
\* on the side of the constant where the condition holds
RealSetOfRelation(r) ==
    LET varLeft == ExprVars(r.lhs) # {}
        lowerBound == (varLeft /\ r.op \in {">", ">="}) \/ (~varLeft /\ r.op \in {"<", "<="})
        c == IF varLeft THEN EndOf(r.rhs) ELSE EndOf(r.lhs)
    IN  IF lowerBound THEN [lower |-> c, upper |-> Inf(1)]
        ELSE [lower |-> Inf(-1), upper |-> c]

\* the interval of one component with the upper end of two conditions
\* left out
ParameterIntervalLowerOnly(component) ==
    IF Len(component[2]) = 1 THEN RealSetOfRelation(component[2][1])
    ELSE LET lower == component[2][1].lhs
         IN  IF lower.kind = "-oo" THEN [lower |-> Inf(-1), upper |-> Inf(1)]
             ELSE [lower |-> EndOf(lower), upper |-> Inf(1)]

\* lines 840-849: the interval of one component
ParameterInterval(component) ==
    IF Len(component[2]) = 1 THEN RealSetOfRelation(component[2][1])
    ELSE LET lower == component[2][1].lhs
             upper == component[2][2].rhs
         IN  IF lower.kind = "-oo" THEN [lower |-> Inf(-1), upper |-> Inf(1)]
             ELSE [lower |-> EndOf(lower), upper |-> EndOf(upper)]

_parameter_intervals(hyp) == Tuple([j \in DOMAIN hyp |-> ParameterInterval(hyp[j])])

\* the point of a component at the value v of its parameter (lines 750-751)
PointAt(component, pt) == Tuple([c \in DOMAIN component[1] |-> AffEval(component[1][c], pt)])

\* vert_comp[(x,y)] assigned a new list also for a vertex that is there
AddIncidenceOverwrite(vert_comp, vertex, inc) ==
    IF \E k \in DOMAIN vert_comp : vert_comp[k].vertex = vertex
    THEN Tuple([k \in DOMAIN vert_comp |->
                   IF vert_comp[k].vertex = vertex
                   THEN [vertex |-> vertex, comps |-> <<inc>>]
                   ELSE vert_comp[k]])
    ELSE Append(vert_comp, [vertex |-> vertex, comps |-> <<inc>>])

\* lines 746-761: vert_comp as the sequence of its items, a vertex with the
\* list of the (index, 'pos' / 'neg') of the components that end there
AddIncidence(vert_comp, vertex, inc) ==
    IF \E k \in DOMAIN vert_comp : vert_comp[k].vertex = vertex
    THEN Tuple([k \in DOMAIN vert_comp |->
                   IF vert_comp[k].vertex = vertex
                   THEN [vertex |-> vertex, comps |-> Append(vert_comp[k].comps, inc)]
                   ELSE vert_comp[k]])
    ELSE Append(vert_comp, [vertex |-> vertex, comps |-> <<inc>>])

RECURSIVE VertComp(_, _)
VertComp(hyp, upto) ==
    IF upto = 0 THEN <<>>
    ELSE LET interval == ParameterInterval(hyp[upto])
             before == VertComp(hyp, upto - 1)
             withLower == IF interval.lower.inf = 0
                          THEN AddIncidence(before, PointAt(hyp[upto], <<interval.lower.v>>),
                                            <<upto - 1, "pos">>)
                          ELSE before
         IN  IF interval.upper.inf = 0
             THEN AddIncidence(withLower, PointAt(hyp[upto], <<interval.upper.v>>),
                               <<upto - 1, "neg">>)
             ELSE withLower

\* vertices(): the keys of vectors_of_vertices(), which is empty with less
\* than three components and reads self._hypersurface[0] (line 764) before
\* it returns
vertices ==
    IF hypersurface = <<>> THEN [op |-> "vertices", kind |-> "raise", val |-> "IndexError"]
    ELSE [op |-> "vertices", kind |-> "return",
          val |-> IF Len(hypersurface) >= 3
                  THEN {it.vertex : it \in SeqRange(VertComp(hypersurface, Len(hypersurface)))}
                  ELSE {}]

\* lines 763-769: the primitive direction of a component, the derivative of
\* its point by the parameter divided by the gcd of the two derivatives
TempVector(component) ==
    LET dx == component[1][1][1]
        dy == component[1][2][1]
        multiplier == RGcd(dx, dy)
    IN  <<RDiv(dx, multiplier), RDiv(dy, multiplier)>>

VecScale(c, v) == Tuple([a \in DOMAIN v |-> RMul(c, v[a])])
VecNeg(v) == Tuple([a \in DOMAIN v |-> RNeg(v[a])])

\* the vectors of one vertex without their weights
VectorsOfUnweighted(hyp, comps) ==
    Tuple([a \in DOMAIN comps |->
              IF comps[a][2] = "pos" THEN TempVector(hyp[comps[a][1] + 1])
              ELSE VecNeg(TempVector(hyp[comps[a][1] + 1]))])

\* the vectors of one vertex all in the direction of the parameter
VectorsOfForward(hyp, comps) ==
    Tuple([a \in DOMAIN comps |->
              VecScale(R(hyp[comps[a][1] + 1][3]), TempVector(hyp[comps[a][1] + 1]))])

\* lines 771-780: the vectors of one vertex, from its list of components
VectorsOf(hyp, comps) ==
    Tuple([a \in DOMAIN comps |->
              LET weight == R(hyp[comps[a][1] + 1][3])
                  temp == TempVector(hyp[comps[a][1] + 1])
              IN  IF comps[a][2] = "pos" THEN VecScale(weight, temp)
                  ELSE VecScale(weight, VecNeg(temp))])

\* vectors_of_vertices(): the dict as the sequence of its items; line 764
\* reads self._hypersurface[0] whatever the number of components
vectors_of_vertices ==
    IF hypersurface = <<>>
    THEN [op |-> "vectors_of_vertices", kind |-> "raise", val |-> "IndexError"]
    ELSE LET vert_comp == IF Len(hypersurface) >= 3
                          THEN VertComp(hypersurface, Len(hypersurface)) ELSE <<>>
         IN  [op |-> "vectors_of_vertices", kind |-> "return",
              val |-> Tuple([k \in DOMAIN vert_comp |->
                                [vertex |-> vert_comp[k].vertex,
                                 vectors |-> VectorsOf(hypersurface, vert_comp[k].comps)]])]

\* self._poly.degree(): the total degree
RECURSIVE DegreeTo(_, _)
DegreeTo(dict, upto) ==
    IF upto = 0 THEN 0
    ELSE LET rest == DegreeTo(dict, upto - 1)
             d == Degree(dict[upto].e)
         IN  IF d > rest THEN d ELSE rest

PolyDegree(dict) == DegreeTo(dict, Len(dict))

\* is_smooth(): len(self.vertices()) == self._poly.degree()**2
is_smooth ==
    IF vertices.kind = "raise" THEN [op |-> "is_smooth", kind |-> "raise", val |-> vertices.val]
    ELSE [op |-> "is_smooth", kind |-> "return",
          val |-> Cardinality(vertices.val) = PolyDegree(terms) * PolyDegree(terms)]

\* the loop of is_simple() over the items of vov
Simple(vov) ==
    \A k \in DOMAIN vov :
        /\ Len(vov[k].vectors) <= 4
        /\ Len(vov[k].vectors) = 4 =>
               \A v \in SeqRange(vov[k].vectors) : VecNeg(v) \in SeqRange(vov[k].vectors)

is_simple ==
    IF vectors_of_vertices.kind = "raise"
    THEN [op |-> "is_simple", kind |-> "raise", val |-> vectors_of_vertices.val]
    ELSE [op |-> "is_simple", kind |-> "return", val |-> Simple(vectors_of_vertices.val)]

\* genus(): ValueError unless is_simple(), else trivalent // 2 -
\* unbounded // 2 + 1, unbounded the components with a single condition
genus ==
    IF is_simple.kind = "raise" THEN [op |-> "genus", kind |-> "raise", val |-> is_simple.val]
    ELSE IF ~ is_simple.val THEN [op |-> "genus", kind |-> "raise", val |-> "ValueError"]
    ELSE LET vov == vectors_of_vertices.val
             trivalent == Cardinality({k \in DOMAIN vov : Len(vov[k].vectors) = 3})
             unbounded == Cardinality({j \in DOMAIN hypersurface :
                                          Len(hypersurface[j][2]) = 1})
         IN  [op |-> "genus", kind |-> "return",
              val |-> (trivalent \div 2) - (unbounded \div 2) + 1]

\* dual_subdivision(): the graph of the edges self._keys, an attribute that
\* line 289 sets; with two variables the position of a vertex is the vertex
\* itself, with three the positions are those of the 3d layout and the
\* vertices themselves are kept in _pos3d
dual_subdivision ==
    IF "_keys" \notin attrs
    THEN [op |-> "dual_subdivision", kind |-> "raise", val |-> "AttributeError"]
    ELSE LET edges == {{key[1], key[2]} : key \in SeqRange(self_keys)}
             nodes == UNION edges
         IN  [op |-> "dual_subdivision", kind |-> "return",
              val |-> [edges |-> edges, nodes |-> nodes,
                       pos |-> IF nvars = 2 THEN [v \in nodes |-> v] ELSE <<>>,
                       pos3d |-> IF nvars = 3 THEN [v \in nodes |-> v] ELSE <<>>]]

\* the smallest and the largest of a set of rationals
RMin(S) == CHOOSE v \in S : \A w \in S : RLe(v, w)
RMax(S) == CHOOSE v \in S : \A w \in S : RLe(w, v)

DefaultAxis == <<R(-1), R(1)>>

\* TropicalCurve._axes, lines 673-699: the default axes without component;
\* with one component the axes around its constant coordinate; otherwise
\* the first of list(self.vertices()) is read (IndexError on an empty
\* set) and the axes are the extremes of the vertices, widened by one
_axes ==
    IF Len(hypersurface) = 0
    THEN [op |-> "_axes", kind |-> "return", val |-> <<DefaultAxis, DefaultAxis>>]
    ELSE IF Len(hypersurface) = 1
    THEN LET eq == hypersurface[1][1]
         IN  [op |-> "_axes", kind |-> "return",
              val |-> IF ~ AffIsConst(eq[1]) /\ ~ AffIsConst(eq[2])
                      THEN <<DefaultAxis, DefaultAxis>>
                      ELSE IF AffIsConst(eq[1])
                      THEN <<<<RSub(AffConstPart(eq[1]), R(1)), RAdd(AffConstPart(eq[1]), R(1))>>,
                             DefaultAxis>>
                      ELSE <<DefaultAxis,
                             <<RSub(AffConstPart(eq[2]), R(1)), RAdd(AffConstPart(eq[2]), R(1))>>>>]
    ELSE IF vertices.val = {}
    THEN [op |-> "_axes", kind |-> "raise", val |-> "IndexError"]
    ELSE LET xs == {v[1] : v \in vertices.val}
             ys == {v[2] : v \in vertices.val}
         IN  [op |-> "_axes", kind |-> "return",
              val |-> <<<<RSub(RMin(xs), R(1)), RAdd(RMax(xs), R(1))>>,
                        <<RSub(RMin(ys), R(1)), RAdd(RMax(ys), R(1))>>>>]

\* a call that takes the first component off the list it reads
CallConsuming(result) ==
    /\ pc = "done"
    /\ ret.op = ""
    /\ ret' = result
    /\ hypersurface' = IF hypersurface = <<>> THEN <<>> ELSE Tail(hypersurface)
    /\ UNCHANGED <<input, pc, exc, attrs, self_keys, locals>>

\* a call of a method on the constructed variety; ret holds its result
\* until the caller has taken it
Call(result) ==
    /\ pc = "done"
    /\ ret.op = ""
    /\ ret' = result
    /\ UNCHANGED <<input, pc, exc, attrs, hypersurface, self_keys, locals>>

\* the caller takes the result, and may call again
TakeResult ==
    /\ pc = "done"
    /\ ret.op # ""
    /\ ret' = NoReturn
    /\ UNCHANGED <<input, pc, exc, attrs, hypersurface, self_keys, locals>>

CallDimension == Call(dimension)
CallNumberOfComponents == Call(number_of_components)
CallComponents == Call(components_)
\* vertices() is a method of the curves, the varieties in two variables
CallVertices == nvars = 2 /\ Call(vertices)
CallVectorsOfVertices == nvars = 2 /\ Call(vectors_of_vertices)
CallIsSmooth == nvars = 2 /\ Call(is_smooth)
CallIsSimple == nvars = 2 /\ Call(is_simple)
CallGenus == nvars = 2 /\ Call(genus)
CallDualSubdivision == Call(dual_subdivision)
CallParameterIntervals ==
    nvars = 2 /\ Call([op |-> "_parameter_intervals", kind |-> "return",
                       val |-> _parameter_intervals(hypersurface)])
CallAxes == nvars = 2 /\ Call(_axes)

Next ==
    \/ InitRaise
    \/ InitBegin
    \/ InitPair
    \/ InitRewrite
    \/ InitDedup
    \/ InitFinish
    \/ CallDimension
    \/ CallNumberOfComponents
    \/ CallComponents
    \/ CallVertices
    \/ CallVectorsOfVertices
    \/ CallIsSmooth
    \/ CallIsSimple
    \/ CallGenus
    \/ CallDualSubdivision
    \/ CallParameterIntervals
    \/ CallAxes
    \/ TakeResult

Spec == Init /\ [][Next]_vars

(***************************************************************************)
(* What a component means.  The claims are checked at the points whose     *)
(* coordinates are multiples of 1/2 between -GridMax and GridMax; a point  *)
(* is the sequence of the numerators k of its coordinates k/2.  To compare *)
(* values without fractions, the forms of a component are multiplied by a  *)
(* common denominator `scale`, so that IntEval(F, k) is 2 * scale times    *)
(* the value of the form at the point k/2.                                 *)
(***************************************************************************)
GridMax == 2

Grid(k) == [1 .. k -> (0 - 2 * GridMax) .. 2 * GridMax]

\* the points at which coverage is checked: all of the grid in the plane,
\* those with integer coordinates in space
Points(n) ==
    IF n = 2 THEN Grid(2) ELSE [1 .. n -> {2 * a : a \in (0 - GridMax) .. GridMax}]

RECURSIVE FormDenTo(_, _)
FormDenTo(f, upto) ==
    IF upto = 0 THEN 1 ELSE Lcm(FormDenTo(f, upto - 1), f[upto][2])

RECURSIVE SetDen(_)
SetDen(S) ==
    IF S = {} THEN 1
    ELSE LET f == CHOOSE g \in S : TRUE
         IN  Lcm(FormDenTo(f, Len(f)), SetDen(S \ {f}))

\* every form that the component holds
CompForms(component) ==
    SeqRange(component[1])
        \cup UNION {r.lhs.s \cup r.rhs.s : r \in SeqRange(component[2])}

IntForm(f, scale) == Tuple([a \in DOMAIN f |-> (f[a][1] * scale) \div f[a][2]])
IntExpr(x, scale) == [kind |-> x.kind, s |-> {IntForm(f, scale) : f \in x.s}]

\* the component over the integers: its scale, its point, its conditions,
\* and for each parameter the coordinate that is this parameter itself
IntComponent(component) ==
    LET scale == SetDen(CompForms(component))
        m == Len(component[1]) - 1
    IN  [scale |-> scale,
         point |-> Tuple([c \in DOMAIN component[1] |-> IntForm(component[1][c], scale)]),
         conds |-> Tuple([j \in DOMAIN component[2] |->
                             [lhs |-> IntExpr(component[2][j].lhs, scale),
                              op |-> component[2][j].op,
                              rhs |-> IntExpr(component[2][j].rhs, scale)]]),
         pure |-> Tuple([j \in 1 .. m |->
                            CHOOSE c \in DOMAIN component[1] :
                                component[1][c] = AffSym(m, j)])]

RECURSIVE IntEvalTo(_, _, _)
IntEvalTo(F, k, upto) ==
    IF upto = 0 THEN 2 * F[Len(F)]
    ELSE IntEvalTo(F, k, upto - 1) + F[upto] * k[upto]

IntEval(F, k) == IntEvalTo(F, k, Len(F) - 1)

MaxOf(S) == CHOOSE v \in S : \A w \in S : w <= v
MinOf(S) == CHOOSE v \in S : \A w \in S : v <= w

\* the value of a side of a condition: [inf, v], inf = -1 / 1 an infinity
ExtValue(x, k) ==
    CASE x.kind = "-oo" -> [inf |-> -1, v |-> 0]
      [] x.kind = "+oo" -> [inf |-> 1, v |-> 0]
      [] x.kind = "max" -> [inf |-> 0, v |-> MaxOf({IntEval(F, k) : F \in x.s})]
      [] x.kind = "min" -> [inf |-> 0, v |-> MinOf({IntEval(F, k) : F \in x.s})]
      [] x.kind = "aff" -> [inf |-> 0, v |-> IntEval(CHOOSE F \in x.s : TRUE, k)]

ExtLt(a, b) == IF a.inf # 0 \/ b.inf # 0 THEN a.inf < b.inf ELSE a.v < b.v
ExtLe(a, b) == IF a.inf # 0 \/ b.inf # 0 THEN a.inf <= b.inf ELSE a.v <= b.v

RelHolds(r, k) ==
    LET a == ExtValue(r.lhs, k)
        b == ExtValue(r.rhs, k)
    IN  CASE r.op = "<" -> ExtLt(a, b)
          [] r.op = "<=" -> ExtLe(a, b)
          [] r.op = ">" -> ExtLt(b, a)
          [] r.op = ">=" -> ExtLe(b, a)

\* the value k / 2 of the parameters satisfies the conditions
Feasible(ic, k) == \A j \in DOMAIN ic.conds : RelHolds(ic.conds[j], k)

\* the form (times scale) of the value of a term along the component:
\* the sum of exponent times coordinate, plus the coefficient
RECURSIVE TermAlongTo(_, _, _)
TermAlongTo(term, ic, upto) ==
    IF upto = 0
    THEN Tuple([a \in DOMAIN ic.point[1] |->
                   IF a = Len(ic.point[1]) THEN ic.scale * term.c ELSE 0])
    ELSE LET rest == TermAlongTo(term, ic, upto - 1)
         IN  Tuple([a \in DOMAIN rest |-> rest[a] + term.e[upto] * ic.point[upto][a]])

TermAlong(term, ic) == TermAlongTo(term, ic, Len(term.e))

\* among the values vals of the terms, value a is the optimum
Optimal(vals, a) ==
    \A l \in DOMAIN vals : IF use_min THEN vals[a] <= vals[l] ELSE vals[l] <= vals[a]

KeyIndex(e) == CHOOSE j \in DOMAIN terms : terms[j].e = e

\* at every feasible value of the grid the two witness terms of the
\* component tie and no term is better
SoundComponent(component, key) ==
    LET ic == IntComponent(component)
        along == Tuple([j \in DOMAIN terms |-> TermAlong(terms[j], ic)])
        a == KeyIndex(key[1])
        b == KeyIndex(key[2])
    IN  \A k \in Grid(Len(component[1]) - 1) :
            Feasible(ic, k) =>
                LET vals == Tuple([j \in DOMAIN terms |-> IntEval(along[j], k)])
                IN  vals[a] = vals[b] /\ Optimal(vals, a)

\* C1: every point of every finalized component, at every value of the
\* parameters that satisfies the conditions of the component, gives the two
\* witness terms of the component the same value, and no other term a
\* better one under the convention (checked at the values of the grid)
C1_Soundness ==
    (pc = "done" /\ ret.op = "") =>
        \A j \in DOMAIN hypersurface : SoundComponent(hypersurface[j], self_keys[j])

\* a finished variety of at least three terms with a component whose
\* conditions hold at one value of the grid and fail at another
C1_Witness ==
    /\ pc = "done"
    /\ Len(terms) >= 3
    /\ \E j \in DOMAIN hypersurface :
           LET ic == IntComponent(hypersurface[j])
           IN  /\ \E k \in Grid(nvars - 1) : Feasible(ic, k)
               /\ \E k \in Grid(nvars - 1) : ~ Feasible(ic, k)

\* twice the value of a term at the point k / 2
RECURSIVE TermValueTo(_, _, _)
TermValueTo(term, k, upto) ==
    IF upto = 0 THEN 2 * term.c
    ELSE TermValueTo(term, k, upto - 1) + term.e[upto] * k[upto]

\* the terms that attain the optimum at the point k / 2
Attaining(k) ==
    LET vals == Tuple([j \in DOMAIN terms |-> TermValueTo(terms[j], k, Len(k))])
    IN  {j \in DOMAIN terms : Optimal(vals, j)}

\* the point k / 2 is the point of the component at the value of the
\* parameters read off its coordinates, and this value is feasible
OnComponent(ic, k) ==
    LET kp == Tuple([j \in DOMAIN ic.pure |-> k[ic.pure[j]]])
    IN  /\ \A c \in DOMAIN ic.point : IntEval(ic.point[c], kp) = ic.scale * k[c]
        /\ Feasible(ic, kp)

Covered(hyp) ==
    LET ics == Tuple([j \in DOMAIN hyp |-> IntComponent(hyp[j])])
    IN  \A k \in Points(nvars) :
            Cardinality(Attaining(k)) >= 2 => \E j \in DOMAIN ics : OnComponent(ics[j], k)

\* C2: with at least two terms, every point at which two or more terms
\* attain the optimum lies on a component, at a value of the parameters
\* that satisfies its conditions (checked at the points of the grid)
C2_Completeness ==
    (pc = "done" /\ ret.op = "" /\ Len(terms) >= 2) => Covered(hypersurface)

\* a finished variety with a point of the grid where three terms tie and
\* one where exactly two do
C2_Witness ==
    /\ pc = "done"
    /\ \E k \in Points(nvars) : Cardinality(Attaining(k)) >= 3
    /\ \E k \in Points(nvars) : Cardinality(Attaining(k)) = 2

\* the form a * t1 + b of a curve, and it as a side of a condition
T1(a, b) == <<R(a), R(b)>>
E1(a, b) == ExprAff(T1(a, b))

\* 1*x + 0*x*y + 0 with its terms in the order of the dict
DocTerms ==
    <<[e |-> <<1, 0>>, c |-> 1], [e |-> <<1, 1>>, c |-> 0], [e |-> <<0, 0>>, c |-> 0]>>

\* (t1, 1) with t1 >= -1, (-1, t1) with t1 <= 1, (-t1, t1) with t1 >= 1,
\* each of weight 1
DocComponents ==
    <<(<<(<<T1(1, 0), T1(0, 1)>>), <<Rel(E1(1, 0), ">=", E1(0, -1))>>, 1>>),
      (<<(<<T1(0, -1), T1(1, 0)>>), <<Rel(E1(1, 0), "<=", E1(0, 1))>>, 1>>),
      (<<(<<T1(-1, 0), T1(1, 0)>>), <<Rel(E1(1, 0), ">=", E1(0, 1))>>, 1>>)>>

IsDocPolynomial ==
    nvars = 2 /\ ~ use_min /\ tropical /\ SeqRange(terms) = SeqRange(DocTerms)

\* C3 as stated: the polynomial with the terms (0,0): 0, (1,0): 1,
\* (1,1): 0 under max yields exactly the three components of DocComponents
\* in this order, and vertices() is {(-1, 1)}
C3_AsStated ==
    (IsDocPolynomial /\ pc = "done") =>
        /\ hypersurface = DocComponents
        /\ vertices = [op |-> "vertices", kind |-> "return", val |-> {<<R(-1), R(1)>>}]

\* C3 amended: that polynomial under max yields exactly the three
\* components of DocComponents and vertices() is {(-1, 1)}; the components
\* come in the stated order when the dict of the polynomial lists its terms
\* in the order (1,0), (1,1), (0,0)
C3_Amended ==
    (IsDocPolynomial /\ pc = "done") =>
        /\ Len(hypersurface) = 3
        /\ SeqRange(hypersurface) = SeqRange(DocComponents)
        /\ terms = DocTerms => hypersurface = DocComponents
        /\ vertices = [op |-> "vertices", kind |-> "return", val |-> {<<R(-1), R(1)>>}]

\* the variety of the polynomial in the order of the docstring is built and
\* vertices() has been called on it
C3_Witness ==
    IsDocPolynomial /\ terms = DocTerms /\ pc = "done" /\ ret.op = "vertices"

\* C4: the construction from a polynomial of one term succeeds without an
\* error and yields no component: number_of_components() is 0 and
\* components() is empty
C4_SingleTerm ==
    (tropical /\ Len(terms) = 1 /\ pc # "new") =>
        /\ pc = "done"
        /\ exc = ""
        /\ hypersurface = <<>>
        /\ number_of_components.kind = "return" /\ number_of_components.val = 0
        /\ components_.kind = "return" /\ components_.val = <<>>
        /\ ret.op = "number_of_components" => ret.val = 0
        /\ ret.op = "components" => ret.val = <<>>

\* components() has been called on the variety of a polynomial of one term
C4_Witness ==
    tropical /\ Len(terms) = 1 /\ pc = "done" /\ ret.op = "components"

\* C5: an argument that is no tropical multivariate polynomial is rejected
\* with a ValueError before any pair of terms is examined and before any
\* attribute of the variety is stored
C5_RejectedFirst ==
    ~ tropical =>
        /\ pc \in {"new", "raised"}
        /\ pc = "raised" => exc = "ValueError"
        /\ attrs = {}
        /\ examined = 0
        /\ hypersurface = <<>> /\ self_keys = <<>> /\ tropical_roots = <<>>

\* the constructor has raised on such an argument
C5_Witness ==
    ~ tropical /\ pc = "raised" /\ exc = "ValueError"

\* w is the gcd of the absolute differences of the exponents of e0 and e1:
\* it divides each of them and every common divisor divides it
IsGcdOfDiffs(w, e0, e1) ==
    /\ \A c \in DOMAIN e0 : Abs(e0[c] - e1[c]) % w = 0
    /\ \A d \in 1 .. SumDiffTo(e0, e1, Len(e0)) :
           (\A c \in DOMAIN e0 : Abs(e0[c] - e1[c]) % d = 0) => w % d = 0

\* C6: the weight of every finalized component is a positive integer and
\* is the gcd of the absolute differences of the exponents of the witness
\* pair recorded at the same index
C6_WeightIsGcd ==
    pc = "done" =>
        /\ Len(self_keys) = Len(hypersurface)
        /\ \A j \in DOMAIN hypersurface :
               /\ hypersurface[j][3] \in Nat
               /\ hypersurface[j][3] >= 1
               /\ {self_keys[j][1], self_keys[j][2]} \subseteq {t.e : t \in SeqRange(terms)}
               /\ IsGcdOfDiffs(hypersurface[j][3], self_keys[j][1], self_keys[j][2])

\* a finished variety with a component of weight 2 or more that several
\* pairs of terms produced
C6_Witness ==
    /\ pc = "done"
    /\ \E j \in DOMAIN hypersurface :
           /\ hypersurface[j][3] >= 2
           /\ Cardinality({l \in DOMAIN components :
                               ComponentEq(components[l], hypersurface[j])}) >= 2

\* the candidates (indices of components) equal to a finalized component
Group(component) == {l \in DOMAIN components : ComponentEq(components[l], component)}

\* C7: when several pairs of terms produce the same component, its weight
\* is the largest of the weights of these pairs, and its witness pair is one
\* of the pairs that have this weight
C7_LargestWeight ==
    pc = "done" =>
        \A j \in DOMAIN hypersurface :
            LET group == Group(hypersurface[j])
            IN  /\ group # {}
                /\ \A l \in group : temp_order[l] <= hypersurface[j][3]
                /\ \E l \in group : /\ temp_order[l] = hypersurface[j][3]
                                     /\ temp_keys[l] = self_keys[j]

\* a finished variety with a component that pairs of different weights
\* produced, the larger weight not by the first of them
C7_Witness ==
    /\ pc = "done"
    /\ \E j \in DOMAIN hypersurface :
           \E a, b \in Group(hypersurface[j]) : a < b /\ temp_order[a] < temp_order[b]

\* C8: no two entries of the finalized collection are equal in point and
\* conditions, and every candidate that was kept for dedup is equal to
\* exactly one entry
C8_NoDuplicates ==
    pc = "done" =>
        /\ \A j, l \in DOMAIN hypersurface :
               j # l => ~ ComponentEq(hypersurface[j], hypersurface[l])
        /\ \A l \in DOMAIN components :
               Cardinality(Matches(hypersurface, components[l])) = 1

\* a finished variety of several components, with more candidates than
\* components
C8_Witness ==
    /\ pc = "done"
    /\ Len(hypersurface) >= 2
    /\ Len(components) > Len(hypersurface)

\* C9: dimension() returns the number n of variables of the polynomial for
\* every constructed variety, the one without components included
C9_DimensionIsN ==
    pc = "done" =>
        /\ dimension = [op |-> "dimension", kind |-> "return", val |-> nvars]
        /\ ret.op = "dimension" => (ret.kind = "return" /\ ret.val = nvars)

\* the least coordinate of the point that mentions parameter k
FirstCoord(point, k) ==
    CHOOSE c \in DOMAIN point :
        /\ k \in AffVars(point[c])
        /\ \A d \in 1 .. c - 1 : k \notin AffVars(point[d])

\* C10: the point of every finalized component has n coordinates; the
\* parameters it mentions are exactly t1..t(n-1), numbered in the order of
\* their first appearance in the coordinates from left to right; and the
\* conditions mention no other variable (every parameter of the solver in
\* the conditions of a root is one that the renaming replaces)
C10_Parameters ==
    pc = "done" =>
        /\ \A j \in DOMAIN hypersurface :
               LET point == hypersurface[j][1]
               IN  /\ Len(point) = nvars
                   /\ \A c \in DOMAIN point : Len(point[c]) = nvars
                   /\ UNION {AffVars(point[c]) : c \in DOMAIN point} = 1 .. nvars - 1
                   /\ \A k, l \in 1 .. nvars - 1 :
                          k < l => FirstCoord(point, k) <= FirstCoord(point, l)
                   /\ \A r \in SeqRange(hypersurface[j][2]) :
                          /\ RelVars(r) \subseteq 1 .. nvars - 1
                          /\ \A f \in r.lhs.s \cup r.rhs.s : Len(f) = nvars
        /\ \A l \in DOMAIN tropical_roots :
               LET subs_dict == SubsDict(tropical_roots[l][1])
               IN  /\ Len(subs_dict) = nvars - 1
                   /\ \A r \in SeqRange(tropical_roots[l][2]) :
                          RelVars(r) \subseteq SeqRange(subs_dict)

\* a finished variety in three variables with a component that has a
\* coordinate in both parameters and a condition in both
C10_Witness ==
    /\ pc = "done"
    /\ nvars = 3
    /\ \E j \in DOMAIN hypersurface :
           /\ \E c \in 1 .. 3 : AffVars(hypersurface[j][1][c]) = {1, 2}
           /\ \E r \in SeqRange(hypersurface[j][2]) : RelVars(r) = {1, 2}

\* a condition with >= and <= exchanged
Exchanged(r) ==
    Rel(r.lhs, CASE r.op = ">=" -> "<=" [] r.op = "<=" -> ">=" [] OTHER -> r.op, r.rhs)

\* g has the points and the weights of h in the same sequence, and the
\* conditions of h with >= and <= exchanged
Symmetric(h, g) ==
    /\ Len(h) = Len(g)
    /\ \A j \in DOMAIN h :
           /\ j \in DOMAIN g
           /\ h[j][1] = g[j][1]
           /\ h[j][3] = g[j][3]
           /\ Len(h[j][2]) = Len(g[j][2])
           /\ \A c \in DOMAIN h[j][2] : Exchanged(h[j][2][c]) = g[j][2][c]

\* the three exponent vectors are not on a line
NotCollinear(e1, e2, e3) ==
    (e2[1] - e1[1]) * (e3[2] - e1[2]) # (e2[2] - e1[2]) * (e3[1] - e1[1])

\* a curve is finished and no call is under way
CurveDone == pc = "done" /\ nvars = 2 /\ ret.op = ""

\* C11 as stated: for every polynomial the construction under the other
\* convention yields the same sequence of points and the same weights,
\* with >= and <= exchanged in every condition (curves)
C11_AsStated ==
    (CurveDone /\ Len(terms) >= 2) =>
        Symmetric(hypersurface, CurveOf(terms, ~ use_min).hypersurface)

\* C11 amended: this holds for the polynomials in two variables of two
\* terms, and of three terms whose exponent vectors are not on a line
C11_Amended ==
    (/\ CurveDone
     /\ Len(terms) \in {2, 3}
     /\ Len(terms) = 3 => NotCollinear(terms[1].e, terms[2].e, terms[3].e)) =>
        /\ hypersurface = CurveOf(terms, use_min).hypersurface
        /\ Symmetric(hypersurface, CurveOf(terms, ~ use_min).hypersurface)

\* the finished curve of three terms not on a line, three components with
\* a condition each
C11_Witness ==
    /\ CurveDone
    /\ Len(terms) = 3
    /\ NotCollinear(terms[1].e, terms[2].e, terms[3].e)
    /\ Len(hypersurface) = 3
    /\ \A j \in DOMAIN hypersurface :
           Len(hypersurface[j][2]) = 1 /\ hypersurface[j][2][1].op \in {">=", "<="}

RECURSIVE VecSumTo(_, _)
VecSumTo(vectors, upto) ==
    IF upto = 0 THEN <<RZero, RZero>>
    ELSE LET rest == VecSumTo(vectors, upto - 1)
         IN  <<RAdd(rest[1], vectors[upto][1]), RAdd(rest[2], vectors[upto][2])>>

\* vectors_of_vertices() has returned
VovReturned == pc = "done" /\ ret.op = "vectors_of_vertices" /\ ret.kind = "return"

\* C12: at every vertex of the curve of a polynomial in two variables the
\* vectors of vectors_of_vertices() add up to the zero vector
C12_Balancing ==
    VovReturned =>
        \A k \in DOMAIN ret.val :
            VecSumTo(ret.val[k].vectors, Len(ret.val[k].vectors)) = <<RZero, RZero>>

\* vectors_of_vertices() has returned two vertices or more, one of them
\* with a vector of weight 2 or more
C12_Witness ==
    /\ VovReturned
    /\ Len(ret.val) >= 2
    /\ \E k \in DOMAIN ret.val : \E v \in SeqRange(ret.val[k].vectors) :
           GCD(Abs(v[1][1]), Abs(v[2][1])) >= 2

\* the ends (component, side) whose point is the vertex: side "pos" for a
\* finite lower end of the interval of the component, "neg" for an upper
EndsAt(vertex) ==
    {e \in (DOMAIN hypersurface) \X {"pos", "neg"} :
        LET interval == ParameterInterval(hypersurface[e[1]])
            end == IF e[2] = "pos" THEN interval.lower ELSE interval.upper
        IN  end.inf = 0 /\ PointAt(hypersurface[e[1]], <<end.v>>) = vertex}

\* C13: every point of vertices(), every key of vectors_of_vertices(), has
\* at least 3 vectors, one for each component with a finite end of its
\* interval at this point
C13_ThreeOrMore ==
    VovReturned =>
        /\ vertices.val = {ret.val[k].vertex : k \in DOMAIN ret.val}
        /\ \A k, l \in DOMAIN ret.val : k # l => ret.val[k].vertex # ret.val[l].vertex
        /\ \A k \in DOMAIN ret.val :
               /\ Len(ret.val[k].vectors) >= 3
               /\ Len(ret.val[k].vectors) = Cardinality(EndsAt(ret.val[k].vertex))

\* vectors_of_vertices() has returned two vertices of exactly 3 vectors,
\* on a curve with a component that ends at both
C13_Witness ==
    /\ VovReturned
    /\ \E k, l \in DOMAIN ret.val :
           /\ k # l
           /\ Len(ret.val[k].vectors) = 3 /\ Len(ret.val[l].vectors) = 3
           /\ \E j \in DOMAIN hypersurface :
                  /\ <<j, "pos">> \in EndsAt(ret.val[k].vertex) \cup EndsAt(ret.val[l].vertex)
                  /\ <<j, "neg">> \in EndsAt(ret.val[k].vertex) \cup EndsAt(ret.val[l].vertex)

\* d is the primitive integer vector in the direction of the derivative of
\* the point of the component by its parameter
IsPrimitiveDirection(d, component) ==
    LET dx == component[1][1][1]
        dy == component[1][2][1]
    IN  /\ d[1][2] = 1 /\ d[2][2] = 1
        /\ GCD(Abs(d[1][1]), Abs(d[2][1])) = 1
        /\ RMul(d[1], dy) = RMul(d[2], dx)
        /\ RSign(d[1]) = RSign(dx) /\ RSign(d[2]) = RSign(dy)

\* C15: each vector of a vertex is weight * d when the vertex is the lower
\* end of the interval of its component and weight * (-d) when it is the
\* upper end, d the primitive integer vector of the derivative of the point
\* of the component and weight the weight of the component
C15_Orientation ==
    VovReturned =>
        \A k \in DOMAIN ret.val :
            \E ends \in [DOMAIN ret.val[k].vectors -> EndsAt(ret.val[k].vertex)] :
                /\ \A a, b \in DOMAIN ends : a # b => ends[a] # ends[b]
                /\ \A a \in DOMAIN ends :
                       LET component == hypersurface[ends[a][1]]
                           weight == R(component[3])
                           v == ret.val[k].vectors[a]
                           d == IF ends[a][2] = "pos" THEN VecScale(RDiv(R(1), weight), v)
                                ELSE VecScale(RDiv(R(-1), weight), v)
                       IN  IsPrimitiveDirection(d, component)

\* vectors_of_vertices() has returned a vertex with a vector of a lower end
\* and one of an upper end, one of them of weight 2 or more
C15_Witness ==
    /\ VovReturned
    /\ \E k \in DOMAIN ret.val :
           /\ \E e \in EndsAt(ret.val[k].vertex) : e[2] = "pos"
           /\ \E e \in EndsAt(ret.val[k].vertex) : e[2] = "neg"
           /\ \E e \in EndsAt(ret.val[k].vertex) : hypersurface[e[1]][3] >= 2

\* C14: on a curve of fewer than 3 components (0, 1 or 2) vertices()
\* returns the empty set and vectors_of_vertices() the empty mapping, and
\* neither raises
C14_FewComponents ==
    (pc = "done" /\ nvars = 2 /\ Len(hypersurface) < 3) =>
        /\ vertices = [op |-> "vertices", kind |-> "return", val |-> {}]
        /\ vectors_of_vertices =
               [op |-> "vectors_of_vertices", kind |-> "return", val |-> <<>>]

\* what holds of the curves of 1 or 2 components
FewButSomeComponents ==
    (pc = "done" /\ nvars = 2 /\ Len(hypersurface) \in {1, 2}) =>
        /\ vertices = [op |-> "vertices", kind |-> "return", val |-> {}]
        /\ vectors_of_vertices =
               [op |-> "vectors_of_vertices", kind |-> "return", val |-> <<>>]

\* the vertices of the finished curve with their vectors, by the ends of
\* the components: none on a curve of fewer than 3 components
VertexVectors ==
    IF Len(hypersurface) >= 3
    THEN LET vert_comp == VertComp(hypersurface, Len(hypersurface))
         IN  Tuple([k \in DOMAIN vert_comp |-> VectorsOf(hypersurface, vert_comp[k].comps)])
    ELSE <<>>

\* the four vectors split into two pairs of a vector and its negative
TwoOppositePairs(vectors) ==
    \E a, b, c, d \in 1 .. 4 :
        /\ {a, b, c, d} = 1 .. 4
        /\ vectors[a] = VecNeg(vectors[b])
        /\ vectors[c] = VecNeg(vectors[d])

\* no vertex has more than 4 vectors, and the vectors of a vertex of
\* exactly 4 split into two pairs of opposite vectors
SimpleCurve ==
    \A k \in DOMAIN VertexVectors :
        /\ Len(VertexVectors[k]) <= 4
        /\ Len(VertexVectors[k]) = 4 => TwoOppositePairs(VertexVectors[k])

\* C16: is_simple() returns True exactly when the curve is simple in this
\* sense, and False when it is not
C16_IsSimple ==
    (pc = "done" /\ nvars = 2) =>
        is_simple = [op |-> "is_simple", kind |-> "return", val |-> SimpleCurve]

\* what holds of the curves of one component or more
IsSimpleOfNonEmpty ==
    (pc = "done" /\ nvars = 2 /\ hypersurface # <<>>) =>
        is_simple = [op |-> "is_simple", kind |-> "return", val |-> SimpleCurve]

\* C17: genus() raises exactly when is_simple() is False, and a call that
\* raises leaves the components, the weights and the witness pairs as they
\* were
C17_GenusRaises ==
    /\ (pc = "done" /\ nvars = 2) =>
           (genus.kind = "raise" <=>
               is_simple = [op |-> "is_simple", kind |-> "return", val |-> FALSE])
    /\ (pc = "done" /\ ret.op = "genus" /\ ret.kind = "raise") =>
           hypersurface = CurveOf(terms, use_min).hypersurface

\* what holds of the curves of one component or more: genus() raises
\* ValueError exactly when the curve is not simple
GenusRaisesOfNonEmpty ==
    (pc = "done" /\ nvars = 2 /\ hypersurface # <<>>) =>
        /\ genus.kind = "raise" <=> ~ SimpleCurve
        /\ genus.kind = "raise" => genus.val = "ValueError"

\* genus() has raised ValueError on a curve with a vertex of 4 vectors that
\* do not split into opposite pairs
NotSimpleReached ==
    /\ pc = "done" /\ ret.op = "genus" /\ ret.kind = "raise" /\ ret.val = "ValueError"
    /\ \E k \in DOMAIN VertexVectors : Len(VertexVectors[k]) = 4

\* the components whose interval is unbounded, a half-line or the line
UnboundedComponents ==
    {j \in DOMAIN hypersurface :
        LET interval == ParameterInterval(hypersurface[j])
        IN  interval.lower.inf # 0 \/ interval.upper.inf # 0}

\* C18: on a curve on which is_simple() returns True, genus() returns
\* (T div 2) - (U div 2) + 1, T the number of the vertices of exactly 3
\* vectors and U the number of the components with an unbounded interval
C18_GenusValue ==
    (/\ pc = "done" /\ nvars = 2
     /\ is_simple = [op |-> "is_simple", kind |-> "return", val |-> TRUE]) =>
        genus = [op |-> "genus", kind |-> "return",
                 val |-> (Cardinality({k \in DOMAIN VertexVectors :
                                          Len(VertexVectors[k]) = 3}) \div 2)
                         - (Cardinality(UnboundedComponents) \div 2) + 1]

\* what holds: the value with U the number of the half-lines only, the
\* components of a single condition
GenusValueHalfLines ==
    (/\ pc = "done" /\ nvars = 2
     /\ is_simple = [op |-> "is_simple", kind |-> "return", val |-> TRUE]) =>
        genus = [op |-> "genus", kind |-> "return",
                 val |-> (Cardinality({k \in DOMAIN VertexVectors :
                                          Len(VertexVectors[k]) = 3}) \div 2)
                         - (Cardinality({j \in UnboundedComponents :
                               LET interval == ParameterInterval(hypersurface[j])
                               IN  interval.lower.inf = 0 \/ interval.upper.inf = 0})
                            \div 2) + 1]

\* the points where components end, none on a curve of fewer than 3
VertexPoints ==
    IF Len(hypersurface) >= 3
    THEN {p \in {PointAt(hypersurface[e[1]],
                         <<IF e[2] = "pos" THEN ParameterInterval(hypersurface[e[1]]).lower.v
                           ELSE ParameterInterval(hypersurface[e[1]]).upper.v>>) :
                    e \in {f \in (DOMAIN hypersurface) \X {"pos", "neg"} :
                              LET interval == ParameterInterval(hypersurface[f[1]])
                              IN  IF f[2] = "pos" THEN interval.lower.inf = 0
                                  ELSE interval.upper.inf = 0}} : TRUE}
    ELSE {}

\* C19: is_smooth() returns True exactly when the number of the vertices
\* of the curve is the square of the total degree of the polynomial, and
\* False otherwise
C19_IsSmooth ==
    (pc = "done" /\ nvars = 2) =>
        is_smooth = [op |-> "is_smooth", kind |-> "return",
                     val |-> Cardinality(VertexPoints) = PolyDegree(terms) * PolyDegree(terms)]

\* what holds of the curves of one component or more
IsSmoothOfNonEmpty ==
    (pc = "done" /\ nvars = 2 /\ hypersurface # <<>>) =>
        is_smooth = [op |-> "is_smooth", kind |-> "return",
                     val |-> Cardinality(VertexPoints) = PolyDegree(terms) * PolyDegree(terms)]

\* is_smooth() has returned True on a curve with a vertex
SmoothReached ==
    pc = "done" /\ ret.op = "is_smooth" /\ ret.kind = "return" /\ ret.val /\ VertexPoints # {}

\* the graph of the witness pairs of the finalized components
WitnessGraph ==
    [edges |-> {{self_keys[j][1], self_keys[j][2]} : j \in DOMAIN hypersurface},
     nodes |-> UNION {{self_keys[j][1], self_keys[j][2]} : j \in DOMAIN hypersurface}]

\* C20: dual_subdivision() returns the undirected graph whose edges are
\* the witness pairs of the finalized components and whose nodes are the
\* exponent vectors in these pairs; with two variables the position of a
\* node is its exponent vector
C20_DualSubdivision ==
    pc = "done" =>
        /\ dual_subdivision.kind = "return"
        /\ dual_subdivision.val.edges = WitnessGraph.edges
        /\ dual_subdivision.val.nodes = WitnessGraph.nodes
        /\ nvars = 2 =>
               dual_subdivision.val.pos = [v \in WitnessGraph.nodes |-> v]

\* what holds of the varieties of a polynomial of two terms or more
DualSubdivisionOfNonEmpty ==
    (pc = "done" /\ Len(terms) >= 2) =>
        /\ dual_subdivision.kind = "return"
        /\ dual_subdivision.val.edges = WitnessGraph.edges
        /\ dual_subdivision.val.nodes = WitnessGraph.nodes
        /\ nvars = 2 =>
               dual_subdivision.val.pos = [v \in WitnessGraph.nodes |-> v]

(***************************************************************************)
(* The ranges of the parameters and the filter of the pairs.               *)
(***************************************************************************)
\* the parameters t1..t(n-1) of a component
ParametersOf(component) == 1 .. Len(component[1]) - 1

\* a condition that bounds the parameter v: v occurs in it and no side of
\* it is an infinity
Bounds(r, v) ==
    /\ v \in RelVars(r)
    /\ r.lhs.kind \notin {"-oo", "+oo"}
    /\ r.rhs.kind \notin {"-oo", "+oo"}

\* the parameter v has an explicit range in the component: a condition
\* bounds it, or the two conditions -Infinity < v and v < +Infinity are there
HasExplicitRange(component, v) ==
    LET k == Len(component[1]) - 1
        conds == SeqRange(component[2])
    IN  \/ \E r \in conds : Bounds(r, v)
        \/ /\ Rel(ExprInf(-1), "<", ExprAff(AffSym(k, v))) \in conds
           /\ Rel(ExprAff(AffSym(k, v)), "<", ExprInf(1)) \in conds

\* C21: after construction every parameter t1..t(n-1) of every component
\* has an explicit range in the conditions of the component, also when
\* another parameter of the component is bounded
C21_ExplicitRanges ==
    pc = "done" =>
        \A j \in DOMAIN hypersurface :
            \A v \in ParametersOf(hypersurface[j]) :
                HasExplicitRange(hypersurface[j], v)

\* what holds: the parameter of every component of a curve has an explicit
\* range, and so has every parameter of a component whose parameters are
\* all unbounded
ExplicitRangesOfCurves ==
    pc = "done" =>
        \A j \in DOMAIN hypersurface :
            (nvars = 2 \/ \A r \in SeqRange(hypersurface[j][2]) :
                             \A v \in ParametersOf(hypersurface[j]) : ~ Bounds(r, v)) =>
                \A v \in ParametersOf(hypersurface[j]) :
                    HasExplicitRange(hypersurface[j], v)

\* C22: a pair of terms for which the equality solver returns no
\* parametrization is skipped, construction does not raise on it and goes
\* on with the next pair.  The equation of a pair has no parametrization
\* when the two linear functions differ by a constant only.
DegeneratePair(pr) ==
    AffIsConst(AffSub(LinearEq(terms[pr[1]]), LinearEq(terms[pr[2]])))

\* no pair of terms of a dict is degenerate: the keys of a dict differ, so
\* the difference of two linear functions has a variable
NoDegeneratePair ==
    \A a \in 1 .. Len(Combinations2(Len(terms))) :
        ~ DegeneratePair(Combinations2(Len(terms))[a])

\* the values of the parameters at which the claims about a pair of terms
\* are evaluated.  A point assigns a rational to each of the n symbols of
\* the parametrization; ParamPoint(final_sol, pt) is the point of the
\* variety it stands for.
ParamPoint(final_sol, pt) ==
    Tuple([c \in DOMAIN final_sol |-> AffEval(final_sol[c], pt)])

\* the value of a term at a point of the space
TermValue(term, point) == AffEval(LinearEq(term), point)

\* the parametric solution of a pair
FinalSol(pr) == SolveEq(AffSub(LinearEq(terms[pr[1]]), LinearEq(terms[pr[2]])))

\* the term of the pair beats the other term c at the point: strictly
\* smaller under use_min, strictly larger otherwise
Beats(pr, c, point) ==
    IF use_min THEN RLt(TermValue(terms[pr[1]], point), TermValue(terms[c], point))
    ELSE RLt(TermValue(terms[c], point), TermValue(terms[pr[1]], point))

\* the other term c has the value of the pair on the whole solution set
TiesIdentically(pr, c, final_sol) ==
    SubsSolution(terms[pr[1]], final_sol) = SubsSolution(terms[c], final_sol)

\* the points at which a system of comparisons with the pair is decided:
\* on every axis of the parameter space, the values where the pair and
\* another term cross, one beyond each of them and the middles between two.
\* These decide every system in one parameter and every single comparison.
CrossingsOn(pr, final_sol, v) ==
    LET diffs == {AffSub(SubsSolution(terms[pr[1]], final_sol),
                         SubsSolution(terms[c], final_sol)) : c \in SeqRange(OtherTerms(terms, pr))}
    IN  {RNeg(RDiv(g[Len(g)], g[v])) : g \in {h \in diffs : h[v] # RZero}}

DecisionPoints(pr, final_sol) ==
    LET n == Len(terms[pr[1]].e)
        Values(v) ==
            LET X == CrossingsOn(pr, final_sol, v)
            IN  {RZero} \cup UNION {{x, RAdd(x, R(1)), RSub(x, R(1))} : x \in X}
                        \cup {RDiv(RAdd(x, y), R(2)) : x \in X, y \in X}
    IN  UNION {{ParamPoint(final_sol, Tuple([a \in 1 .. n |-> IF a = v THEN val ELSE RZero])) :
                   val \in Values(v)} : v \in 1 .. n}

\* the other terms that do not tie identically with the pair
NonTies(pr, final_sol) ==
    {c \in SeqRange(OtherTerms(terms, pr)) : ~ TiesIdentically(pr, c, final_sol)}

IndividuallySolvable(pr, c, points) == \E point \in points : Beats(pr, c, point)

JointlySolvable(pr, cs, points) == \E point \in points : \A c \in cs : Beats(pr, c, point)

Survives(pr) ==
    \E final_sol \in {FinalSol(pr)} :
        \E points \in {DecisionPoints(pr, final_sol)} :
            \E cs \in {NonTies(pr, final_sol)} :
                /\ \A c \in cs : IndividuallySolvable(pr, c, points)
                /\ JointlySolvable(pr, cs, points)

\* the pair is discarded though each of its inequalities is solvable
DiscardedJointly(pr) ==
    \E final_sol \in {FinalSol(pr)} :
        \E points \in {DecisionPoints(pr, final_sol)} :
            \E cs \in {NonTies(pr, final_sol)} :
                /\ \A c \in cs : IndividuallySolvable(pr, c, points)
                /\ ~ JointlySolvable(pr, cs, points)

FirstSurviving(j) ==
    MinOf({l \in DOMAIN components : ComponentEq(components[l], hypersurface[j])})

\* the surviving pairs are in the order of combinations(poly.dict(), 2)
InEnumerationOrder(keys) ==
    \A a, b \in DOMAIN keys :
        a < b => \E x, y \in DOMAIN Combinations2(Len(terms)) :
                    /\ x < y
                    /\ keys[a] = <<terms[Combinations2(Len(terms))[x][1]].e,
                                   terms[Combinations2(Len(terms))[x][2]].e>>
                    /\ keys[b] = <<terms[Combinations2(Len(terms))[y][1]].e,
                                   terms[Combinations2(Len(terms))[y][2]].e>>

DiscoveryOrder ==
    /\ InEnumerationOrder(temp_keys)
    /\ \A j1, j2 \in DOMAIN hypersurface :
           j1 < j2 <=> FirstSurviving(j1) < FirstSurviving(j2)

\* C24: the components are in the order of discovery after dedup, and the
\* construction is a function of the polynomial: the components, weights
\* and witness pairs are those of any other construction from the same
\* dict
C24_Deterministic ==
    (pc = "done" /\ ret.op = "" /\ Len(terms) >= 2) =>
        /\ DiscoveryOrder
        /\ hypersurface = VarietyOf(terms, use_min).hypersurface
        /\ self_keys = VarietyOf(terms, use_min).keys

\* what holds: the order of discovery in any number of variables, and one
\* result per dict of a curve
DiscoveryOrderAndCurves ==
    (pc = "done" /\ ret.op = "" /\ Len(terms) >= 2) =>
        /\ DiscoveryOrder
        /\ nvars = 2 =>
              /\ hypersurface = VarietyOf(terms, use_min).hypersurface
              /\ self_keys = VarietyOf(terms, use_min).keys

\* the triples (point, conditions, weight) of a result of the dedup loop
TriplesOf(d) ==
    {<<d.hypersurface[j][1], d.hypersurface[j][2], d.final_order[j]>> :
        j \in DOMAIN d.hypersurface}

\* two sets of triples are the same: each triple of one is in the other,
\* components compared as the dedup loop compares them
SameTriples(A, B) ==
    /\ \A a \in A : \E b \in B : ComponentEq(a, b) /\ a[3] = b[3]
    /\ \A b \in B : \E a \in A : ComponentEq(a, b) /\ a[3] = b[3]

\* the dedup loop run over the candidates in any order ends with the
\* triples of target: d is the result for the candidates merged so far,
\* rest are the indices of the candidates still to be merged, each of which
\* may come next
RECURSIVE AnyOrderGives(_, _, _)
AnyOrderGives(d, rest, target) ==
    IF rest = {} THEN SameTriples(TriplesOf(d), target)
    ELSE \A c \in rest :
             \A next \in {Dedup(d.hypersurface, d.final_order, d.keys,
                                components[c], temp_order[c], temp_keys[c])} :
                 AnyOrderGives(next, rest \ {c}, target)

\* the largest number of candidates whose orders of merging are all tried
MaxMerged == 5

\* C25: merged in any order, the candidates of the pairs give the set of
\* triples (point, conditions, weight) of the constructed variety
C25_AnyOrder ==
    (pc = "done" /\ ret.op = "" /\ Len(terms) >= 2 /\ Len(components) <= MaxMerged) =>
        AnyOrderGives(DedupTo(components, temp_order, temp_keys, 0),
                      DOMAIN components, SeqRange(hypersurface))

\* a curve whose pairs gave two equal candidates of different weights, the
\* smaller weight first, and a candidate equal to neither
C25_Witness ==
    /\ pc = "done" /\ ret.op = "" /\ nvars = 2
    /\ Len(components) <= MaxMerged
    /\ \E a, b, c \in DOMAIN components :
           /\ a < b
           /\ ComponentEq(components[a], components[b])
           /\ temp_order[a] < temp_order[b]
           /\ ~ ComponentEq(components[a], components[c])

(***************************************************************************)
(* The analyses of a constructed variety.                                  *)
(***************************************************************************)
\* C26: a call of a method of a constructed variety leaves the sequence of
\* the components with their weights, the witness pairs and the polynomial
\* as they are, and its result is the result of the method on this
\* unchanged variety, so that a repeated call returns the same
C26_ReadOnly ==
    [][pc = "done" =>
          /\ hypersurface' = hypersurface
          /\ self_keys' = self_keys
          /\ attrs' = attrs
          /\ terms' = terms
          /\ ret'.op = "genus" => ret' = genus
          /\ ret'.op = "vertices" => ret' = vertices
          /\ ret'.op = "dual_subdivision" => ret' = dual_subdivision
          /\ ret'.op = "_parameter_intervals" =>
                ret'.val = _parameter_intervals(hypersurface')]_vars

\* genus() has returned on a curve with a vertex, and the curve is as the
\* constructor left it
C26_Witness ==
    /\ pc = "done" /\ nvars = 2
    /\ ret.op = "genus" /\ ret.kind = "return"
    /\ Len(hypersurface) >= 3
    /\ hypersurface = CurveOf(terms, use_min).hypersurface
    /\ self_keys = CurveOf(terms, use_min).keys

\* the value k / 2 is in the interval, the finite ends included
InInterval(interval, k) ==
    /\ interval.lower.inf # 0 \/ RLe(interval.lower.v, <<k, 2>>)
    /\ interval.upper.inf # 0 \/ RLe(<<k, 2>>, interval.upper.v)

\* C27: _parameter_intervals() returns one interval per component, in the
\* order of the components, and a value of the parameter is in the interval
\* of a component exactly when it satisfies the conditions of the component
C27_Intervals ==
    (pc = "done" /\ ret.op = "_parameter_intervals") =>
        /\ ret.kind = "return"
        /\ Len(ret.val) = Len(hypersurface)
        /\ \A j \in DOMAIN hypersurface :
               /\ ret.val[j].lower.inf \in {-1, 0}
               /\ ret.val[j].upper.inf \in {0, 1}
               /\ \A ic \in {IntComponent(hypersurface[j])} :
                      \A k \in Grid(1) :
                          InInterval(ret.val[j], k[1]) <=> Feasible(ic, k)

\* the intervals of a curve have been returned: one with two finite ends
\* and one half-line, each with an end at a value of the grid
C27_Witness ==
    /\ pc = "done" /\ ret.op = "_parameter_intervals" /\ ret.kind = "return"
    /\ \E j \in DOMAIN ret.val :
           /\ ret.val[j].lower.inf = 0 /\ ret.val[j].upper.inf = 0
           /\ \E k \in Grid(1) : k[1] * ret.val[j].lower.v[2] = 2 * ret.val[j].lower.v[1]
    /\ \E j \in DOMAIN ret.val :
           /\ ret.val[j].lower.inf = 0 /\ ret.val[j].upper.inf = 1
    /\ \E j \in DOMAIN ret.val :
           /\ ret.val[j].lower.inf = -1 /\ ret.val[j].upper.inf = 0

\* the intervals of a curve of whole lines have been returned
LineIntervalsReached ==
    /\ pc = "done" /\ ret.op = "_parameter_intervals" /\ ret.kind = "return"
    /\ \E j \in DOMAIN ret.val : ret.val[j].lower.inf = -1 /\ ret.val[j].upper.inf = 1

\* the axes the documentation of _axes describes: the extremes of the
\* coordinates of the vertices, widened by one
AxesOfVertices ==
    LET xs == {v[1] : v \in VertexPoints}
        ys == {v[2] : v \in VertexPoints}
    IN  <<<<RSub(RMin(xs), R(1)), RAdd(RMax(xs), R(1))>>,
          <<RSub(RMin(ys), R(1)), RAdd(RMax(ys), R(1))>>>>

\* C28: _axes() never raises on a constructed curve; with two components or
\* more it returns [[xmin-1, xmax+1], [ymin-1, ymax+1]] over the vertices,
\* without component [[-1, 1], [-1, 1]]
C28_Axes ==
    (pc = "done" /\ nvars = 2) =>
        /\ _axes.kind = "return"
        /\ Len(hypersurface) >= 2 => _axes.val = AxesOfVertices
        /\ Len(hypersurface) = 0 => _axes.val = <<<<R(-1), R(1)>>, <<R(-1), R(1)>>>>

\* what holds: the claimed axes on the curves with a vertex and on the
\* curves without component
AxesOfCurvesWithVertices ==
    (pc = "done" /\ nvars = 2 /\ (VertexPoints # {} \/ Len(hypersurface) = 0)) =>
        /\ _axes.kind = "return"
        /\ Len(hypersurface) >= 2 => _axes.val = AxesOfVertices
        /\ Len(hypersurface) = 0 => _axes.val = <<<<R(-1), R(1)>>, <<R(-1), R(1)>>>>

\* _axes() has raised on a curve of two components
AxesRaisedReached ==
    /\ pc = "done" /\ ret.op = "_axes" /\ ret.kind = "raise"
    /\ Len(hypersurface) = 2

\* C29: after the construction from any dict of terms, of a single term
\* too, number_of_components(), the length of components() and the number
\* of the recorded witness pairs agree, the components have different
\* witness pairs, and dual_subdivision() has one edge per component
C29_Counts ==
    pc = "done" =>
        /\ number_of_components.kind = "return"
        /\ components_.kind = "return"
        /\ number_of_components.val = Len(components_.val)
        /\ "_keys" \in attrs
        /\ Len(self_keys) = Len(components_.val)
        /\ \A a, b \in DOMAIN self_keys : a # b => self_keys[a] # self_keys[b]
        /\ dual_subdivision.kind = "return"
        /\ Cardinality(dual_subdivision.val.edges) = Len(components_.val)

\* what holds: the same for the dicts of two terms or more
CountsOfNonEmpty ==
    (pc = "done" /\ Len(terms) >= 2) =>
        /\ number_of_components.kind = "return"
        /\ components_.kind = "return"
        /\ number_of_components.val = Len(components_.val)
        /\ "_keys" \in attrs
        /\ Len(self_keys) = Len(components_.val)
        /\ \A a, b \in DOMAIN self_keys : a # b => self_keys[a] # self_keys[b]
        /\ dual_subdivision.kind = "return"
        /\ Cardinality(dual_subdivision.val.edges) = Len(components_.val)

\* C30: in a step of the dedup loop, a candidate equal to a stored
\* component replaces the stored weight and witness pair when its weight is
\* strictly larger and leaves them otherwise; it never changes the stored
\* components or their positions, nor the weight or witness of another one
C30_Collision ==
    [][(pc = "dedup" /\ i' = i + 1 /\ Matches(hypersurface, components[i + 1]) # {}) =>
          LET index == MinOf(Matches(hypersurface, components[i + 1]))
          IN  /\ hypersurface' = hypersurface
              /\ Len(final_order') = Len(final_order)
              /\ Len(self_keys') = Len(self_keys)
              /\ \A j \in DOMAIN hypersurface :
                     j # index => final_order'[j] = final_order[j] /\ self_keys'[j] = self_keys[j]
              /\ IF temp_order[i + 1] > final_order[index]
                 THEN final_order'[index] = temp_order[i + 1]
                      /\ self_keys'[index] = temp_keys[i + 1]
                 ELSE final_order'[index] = final_order[index]
                      /\ self_keys'[index] = self_keys[index]]_vars

\* three equal candidates of the weights 1, 2 and 1 have been merged: the
\* second replaced the weight and the witness pair, the third did not
C30_Witness ==
    /\ pc = "dedup" /\ i = 3
    /\ temp_order = <<1, 2, 1>>
    /\ Len(hypersurface) = 1
    /\ final_order = <<2>>
    /\ self_keys = <<temp_keys[2]>>

\* a candidate equal to a stored component of the same weight has been
\* merged, and the earlier witness pair is kept
EqualWeightReached ==
    /\ pc = "dedup" /\ i = 2
    /\ Len(hypersurface) = 1
    /\ temp_order[1] = temp_order[2]
    /\ self_keys = <<temp_keys[1]>>

=============================================================================
